---- MODULE Spec2Model ----
(***************************************************************************)
(* Range proofs of the merkletree package: the SubtreeHasher and           *)
(* LeafHasher cursors, BuildRangeProof and VerifyRangeProof (range.go),    *)
(* and the precalcSubtreeHasher decorator of the package's tests.          *)
(*                                                                         *)
(* Digests are modelled as terms of an injective (collision-free) hash:    *)
(* leafSum(d) = <<"leaf", d>> and nodeSum(a, b) = <<"node", a, b>>.  A     *)
(* nil byte slice is the empty tuple.                                      *)
(***************************************************************************)
EXTENDS Integers, Sequences, FiniteSets, TLC

\* ------------------------------------------------------------------ bounds
\* Largest number of leaves of a tree (besides the worked example's).
MaxLeaves == 6
\* Leaf size in bytes (the leafSize argument of the constructors).
LeafSize == 2
\* How far past the end of the data a requested range may reach.
MaxOver == 2
\* Largest number of leaves of a tree whose proofs are corrupted.
MaxTamperLeaves == 5
\* VerifyRangeProof on arbitrary input: the largest proofEnd, the longest
\* proof and the largest number of leaves the LeafHasher yields.
MaxVerifyEnd == 6
MaxProofLen == 3
MaxVerifyLeaves == 4
\* Calls made directly on a SubtreeHasher: the largest number of leaves of
\* its tree and the largest number of calls.
MaxCursorLeaves == 4
MaxCalls == 2
\* VerifyRangeProof against the true root of a tree: the largest number of
\* leaves of the tree, the longest proof and the most leaf hashes given.
MaxSoundLeaves == 3
MaxSoundProofLen == 2
MaxSoundSeq == 2
\* Pushes made directly on a Tree: the largest height pushed and the largest
\* number of leaves the tree stands for.
MaxTreeHeight == 2
\* The deepest of the trees of 2^k leaves, k >= 2.
MaxDepth == 3
MaxTreeLeaves == 6
\* Number of leaves of the worked example of BuildRangeProof's comment.
ExampleLeaves == 12
\* for i := 63; i >= 0; i--
TopBit == 63
\* a loop over too few bits
NumBitsNarrow == 1 + 1
\* for i := 0; i < 64; i++
NumBits == 64

Min(a, b) == IF a < b THEN a ELSE b

nil == <<>>

\* ------------------------------------------------------------------ hashing
\* leafSum: Hash(0x00 || data), with Hash injective.
leafSum(data) == <<"leaf", data>>

\* nodeSum: Hash(0x01 || a || b), with Hash injective.
nodeSum(a, b) == <<"node", a, b>>

\* ------------------------------------------------------------------ Tree
\* A Tree is its stack of pending subtrees, head (smallest, latest) first.
New == <<>>

\* a tree that never joins its subtrees
joinNoSubTrees(t) == t

RECURSIVE joinAllSubTrees(_)
\* While the two topmost subtrees have the same height, join them:
\* the earlier one is the left operand.
joinAllSubTrees(t) ==
    IF Len(t) >= 2 /\ t[1].height = t[2].height
    THEN joinAllSubTrees(<<[height |-> t[1].height + 1,
                            sum |-> nodeSum(t[2].sum, t[1].sum)]>>
                         \o SubSeq(t, 3, Len(t)))
    ELSE t

\* Tree.Push: hash the leaf data and insert it at height 0.
Push(t, data) == joinAllSubTrees(<<[height |-> 0, sum |-> leafSum(data)]>> \o t)

\* Tree.PushSubTree: insert the root of a subtree of 2^height leaves; an
\* error if it is larger than the current smallest subtree.
PushSubTree(t, height, sum) ==
    IF Len(t) > 0 /\ height > t[1].height
    THEN [err |-> "HeightError", tree |-> t]
    ELSE [err |-> "nil",
          tree |-> joinAllSubTrees(<<[height |-> height, sum |-> sum]>> \o t)]

RECURSIVE rootFrom(_, _)
rootFrom(acc, rest) ==
    IF rest = <<>> THEN acc
    ELSE rootFrom(nodeSum(rest[1].sum, acc), Tail(rest))

\* Tree.Root: nil for an empty tree; else fold the stack from the head down,
\* each older subtree being the left operand.
Root(t) == IF t = <<>> THEN nil ELSE rootFrom(t[1].sum, Tail(t))

\* ------------------------------------------------------------------ io
\* io.ReadFull(r, buf) on an in-memory reader r (the bytes still unread).
ReadFull(r, size) ==
    LET k == Min(size, Len(r)) IN
    [n |-> k,
     buf |-> SubSeq(r, 1, k),
     err |-> IF k = size THEN "nil" ELSE IF k = 0 THEN "EOF" ELSE "ErrUnexpectedEOF",
     r |-> SubSeq(r, k + 1, Len(r))]

\* io.CopyN(ioutil.Discard, r, n)
CopyN(r, n) ==
    LET k == Min(n, Len(r)) IN
    [written |-> k,
     err |-> IF k = n THEN "nil" ELSE "EOF",
     r |-> SubSeq(r, k + 1, Len(r))]

RECURSIVE readerPushLeaves(_, _, _, _)
\* The loop of ReaderSubtreeHasher.NextSubtreeRoot (and of ReaderRoot).
readerPushLeaves(r, tree, i, subtreeSize) ==
    IF i >= subtreeSize THEN [r |-> r, tree |-> tree]
    ELSE LET rd == ReadFull(r, LeafSize)
             t2 == IF rd.n > 0 THEN Push(tree, rd.buf) ELSE tree
         IN IF rd.err \in {"EOF", "ErrUnexpectedEOF"}
            THEN [r |-> rd.r, tree |-> t2]
            ELSE readerPushLeaves(rd.r, t2, i + 1, subtreeSize)

\* ReaderRoot / bytesRoot: the Merkle root of a whole byte stream.
bytesRoot(b) == Root(readerPushLeaves(b, New, 0, Len(b) + 1).tree)

RECURSIVE leafHashesOf(_)
\* The leaf hashes of a byte stream: leafSum of each LeafSize chunk.
leafHashesOf(b) ==
    IF b = <<>> THEN <<>>
    ELSE LET k == Min(LeafSize, Len(b))
         IN <<leafSum(SubSeq(b, 1, k))>> \o leafHashesOf(SubSeq(b, k + 1, Len(b)))

\* ------------------------------------------------------------------ SubtreeHasher
\* A cursor is a record: kind ("reader" | "cached"), r (unread bytes),
\* leafHashes (unread leaf hashes).

NewReaderSubtreeHasher(r) == [kind |-> "reader", r |-> r, leafHashes |-> <<>>]

NewCachedSubtreeHasher(leafHashes) == [kind |-> "cached", r |-> <<>>, leafHashes |-> leafHashes]

\* ReaderSubtreeHasher.NextSubtreeRoot
ReaderNextSubtreeRoot(rsh, subtreeSize) ==
    LET res == readerPushLeaves(rsh.r, New, 0, subtreeSize)
        root == Root(res.tree)
        rsh2 == [rsh EXCEPT !.r = res.r]
    IN IF root = nil
       THEN [root |-> nil, err |-> "EOF", sh |-> rsh2]
       ELSE [root |-> root, err |-> "nil", sh |-> rsh2]

\* ReaderSubtreeHasher.Skip
ReaderSkip(rsh, n) ==
    LET skipSize == LeafSize * n
        cp == CopyN(rsh.r, skipSize)
        rsh2 == [rsh EXCEPT !.r = cp.r]
    IN IF cp.err \in {"EOF", "ErrUnexpectedEOF"}
       THEN IF cp.written = skipSize
            THEN [err |-> "nil", sh |-> rsh2]
            ELSE [err |-> "ErrUnexpectedEOF", sh |-> rsh2]
       ELSE [err |-> cp.err, sh |-> rsh2]

RECURSIVE cachedPushLeaves(_, _, _, _)
\* The loop of CachedSubtreeHasher.NextSubtreeRoot.
cachedPushLeaves(leafHashes, tree, i, subtreeSize) ==
    IF i < subtreeSize /\ Len(leafHashes) > 0
    THEN LET p == PushSubTree(tree, 0, leafHashes[1])
         IN IF p.err # "nil"
            THEN [leafHashes |-> leafHashes, tree |-> tree, err |-> p.err]
            ELSE cachedPushLeaves(Tail(leafHashes), p.tree, i + 1, subtreeSize)
    ELSE [leafHashes |-> leafHashes, tree |-> tree, err |-> "nil"]

\* CachedSubtreeHasher.NextSubtreeRoot without its test for the end of the list
CachedNextSubtreeRootNoEOF(csh, subtreeSize) ==
    LET res == cachedPushLeaves(csh.leafHashes, New, 0, subtreeSize)
    IN [root |-> Root(res.tree), err |-> "nil",
        sh |-> [csh EXCEPT !.leafHashes = res.leafHashes]]

\* CachedSubtreeHasher.NextSubtreeRoot
CachedNextSubtreeRoot(csh, subtreeSize) ==
    IF Len(csh.leafHashes) = 0
    THEN [root |-> nil, err |-> "EOF", sh |-> csh]
    ELSE LET res == cachedPushLeaves(csh.leafHashes, New, 0, subtreeSize)
             csh2 == [csh EXCEPT !.leafHashes = res.leafHashes]
         IN IF res.err # "nil"
            THEN [root |-> nil, err |-> res.err, sh |-> csh2]
            ELSE [root |-> Root(res.tree), err |-> "nil", sh |-> csh2]

\* a Skip that checks the count but leaves the list as it is
CachedSkipNoAdvance(csh, n) ==
    IF n > Len(csh.leafHashes)
    THEN [err |-> "ErrUnexpectedEOF", sh |-> csh]
    ELSE [err |-> "nil", sh |-> csh]

\* CachedSubtreeHasher.Skip
CachedSkip(csh, n) ==
    IF n > Len(csh.leafHashes)
    THEN [err |-> "ErrUnexpectedEOF", sh |-> csh]
    ELSE [err |-> "nil",
          sh |-> [csh EXCEPT !.leafHashes = SubSeq(csh.leafHashes, n + 1, Len(csh.leafHashes))]]

\* SubtreeHasher.NextSubtreeRoot on a ReaderSubtreeHasher or CachedSubtreeHasher
BaseNextSubtreeRoot(h, n) ==
    IF h.kind = "reader" THEN ReaderNextSubtreeRoot(h, n) ELSE CachedNextSubtreeRoot(h, n)

\* SubtreeHasher.Skip on a ReaderSubtreeHasher or CachedSubtreeHasher
BaseSkip(h, n) ==
    IF h.kind = "reader" THEN ReaderSkip(h, n) ELSE CachedSkip(h, n)

\* ------------------------------------------------------------------ precalcSubtreeHasher
\* [kind |-> "precalc", precalc, subtreeSize, sh]: sh is the wrapped cursor.
newPrecalcSubtreeHasher(precalc, subtreeSize, sh) ==
    [kind |-> "precalc", precalc |-> precalc, subtreeSize |-> subtreeSize, sh |-> sh]

RECURSIVE pushRoots(_, _)
\* for _, root := range p.precalc[:np] { tree.PushSubTree(0, root) }
pushRoots(roots, tree) ==
    IF roots = <<>> THEN tree
    ELSE pushRoots(Tail(roots), PushSubTree(tree, 0, roots[1]).tree)

\* precalcSubtreeHasher.NextSubtreeRoot
PrecalcNextSubtreeRoot(p, n) ==
    IF n % p.subtreeSize = 0 /\ Len(p.precalc) >= n \div p.subtreeSize
    THEN LET np == n \div p.subtreeSize
             tree == pushRoots(SubSeq(p.precalc, 1, np), New)
             sk == BaseSkip(p.sh, n)
         IN [root |-> Root(tree), err |-> sk.err,
             sh |-> [p EXCEPT !.precalc = SubSeq(p.precalc, np + 1, Len(p.precalc)),
                              !.sh = sk.sh]]
    ELSE LET res == BaseNextSubtreeRoot(p.sh, n)
         IN [root |-> res.root, err |-> res.err, sh |-> [p EXCEPT !.sh = res.sh]]

\* ceil(n / subtreeSize), as precalcSubtreeHasher.Skip counts it
skippedHashes(p, n) ==
    IF n % p.subtreeSize # 0 THEN n \div p.subtreeSize + 1 ELSE n \div p.subtreeSize

\* precalcSubtreeHasher.Skip; slicing past the end of precalc panics.
PrecalcSkip(p, n) ==
    IF skippedHashes(p, n) > Len(p.precalc)
    THEN [err |-> "panic", sh |-> p]
    ELSE LET sk == BaseSkip(p.sh, n)
         IN [err |-> sk.err,
             sh |-> [p EXCEPT !.precalc = SubSeq(p.precalc, skippedHashes(p, n) + 1, Len(p.precalc)),
                              !.sh = sk.sh]]

\* SubtreeHasher.NextSubtreeRoot, by dynamic type
NextSubtreeRoot(h, n) ==
    IF h.kind = "precalc" THEN PrecalcNextSubtreeRoot(h, n) ELSE BaseNextSubtreeRoot(h, n)

\* SubtreeHasher.Skip, by dynamic type
Skip(h, n) ==
    IF h.kind = "precalc" THEN PrecalcSkip(h, n) ELSE BaseSkip(h, n)

\* ------------------------------------------------------------------ BuildRangeProof
RECURSIVE Bit(_, _)
\* x & (1 << i) != 0, for x >= 0
Bit(x, i) == IF x = 0 THEN FALSE ELSE IF i = 0 THEN x % 2 = 1 ELSE Bit(x \div 2, i - 1)

\* subtrees of twice the size
SubtreeSizeDouble(i) == 2 ^ (i + 1)

\* subtreeSize := 1 << uint64(i)
SubtreeSize(i) == 2 ^ i

\* the precondition without its test for an empty range
IllegalRangeNoEmpty(proofStart, proofEnd) ==
    proofStart < 0 \/ proofStart > proofEnd

\* the precondition of BuildRangeProof and VerifyRangeProof
IllegalRange(proofStart, proofEnd) ==
    proofStart < 0 \/ proofStart > proofEnd \/ proofStart = proofEnd

\* proofStart&subtreeSize != 0: the prefix has a subtree of 2^i leaves
PrefixBit(proofStart, i) == Bit(proofStart, i)

\* the mask without its decrement
EndMaskNoDecrement(proofEnd) == proofEnd

\* endMask := proofEnd - 1
EndMask(proofEnd) == proofEnd - 1

\* the suffix loop without its test of the mask
SuffixBitAlways(endMask, i) == TRUE

\* the suffix loop with its test of the mask inverted
SuffixBitInverted(endMask, i) == Bit(endMask, i)

\* endMask&subtreeSize == 0: the suffix has a subtree of 2^i leaves
SuffixBit(endMask, i) == ~Bit(endMask, i)

\* a Skip over proofEnd leaves
SkipCountFromZero(proofStart, proofEnd) == proofEnd

\* h.Skip(proofEnd - proofStart)
SkipCount(proofStart, proofEnd) == proofEnd - proofStart

\* One record of the calls made on the SubtreeHasher.
Call(op, n, err) == [op |-> op, n |-> n, err |-> err]

RECURSIVE buildPrefix(_, _, _)
\* for i := 63; i >= 0; i-- : add proof hashes from leaves [0, proofStart).
\* st = [sh, proof, err, calls]; a non-nil err is BuildRangeProof's return.
buildPrefix(i, proofStart, st) ==
    IF i < 0 THEN st
    ELSE IF PrefixBit(proofStart, i)
    THEN LET res == NextSubtreeRoot(st.sh, SubtreeSize(i))
             calls2 == Append(st.calls, Call("NextSubtreeRoot", SubtreeSize(i), res.err))
         IN IF res.err # "nil"
            THEN [sh |-> res.sh, proof |-> nil, err |-> res.err, calls |-> calls2]
            ELSE buildPrefix(i - 1, proofStart,
                             [sh |-> res.sh, proof |-> Append(st.proof, res.root),
                              err |-> "nil", calls |-> calls2])
    ELSE buildPrefix(i - 1, proofStart, st)

\* h.Skip(proofEnd - proofStart) with its error dropped
buildSkipIgnoreError(proofStart, proofEnd, st) ==
    LET n == SkipCount(proofStart, proofEnd)
        res == Skip(st.sh, n)
    IN [sh |-> res.sh, proof |-> st.proof, err |-> "nil",
        calls |-> Append(st.calls, Call("Skip", n, res.err))]

\* if err := h.Skip(proofEnd - proofStart); err != nil { return nil, err }
buildSkip(proofStart, proofEnd, st) ==
    LET n == SkipCount(proofStart, proofEnd)
        res == Skip(st.sh, n)
        calls2 == Append(st.calls, Call("Skip", n, res.err))
    IN IF res.err # "nil"
       THEN [sh |-> res.sh, proof |-> nil, err |-> res.err, calls |-> calls2]
       ELSE [sh |-> res.sh, proof |-> st.proof, err |-> "nil", calls |-> calls2]

RECURSIVE buildSuffix(_, _, _)
\* for i := 0; i < 64; i++ : add proof hashes from proofEnd onward, stopping
\* when NextSubtreeRoot returns io.EOF.
buildSuffix(i, endMask, st) ==
    IF i >= NumBits THEN st
    ELSE IF SuffixBit(endMask, i)
    THEN LET res == NextSubtreeRoot(st.sh, SubtreeSize(i))
             calls2 == Append(st.calls, Call("NextSubtreeRoot", SubtreeSize(i), res.err))
         IN IF res.err = "EOF"
            THEN [sh |-> res.sh, proof |-> st.proof, err |-> "nil", calls |-> calls2]
            ELSE IF res.err # "nil"
            THEN [sh |-> res.sh, proof |-> nil, err |-> res.err, calls |-> calls2]
            ELSE buildSuffix(i + 1, endMask,
                             [sh |-> res.sh, proof |-> Append(st.proof, res.root),
                              err |-> "nil", calls |-> calls2])
    ELSE buildSuffix(i + 1, endMask, st)

\* BuildRangeProof(proofStart, proofEnd, h) for a legal range, as one function
BuildRangeProof(proofStart, proofEnd, h) ==
    LET s0 == [sh |-> h, proof |-> <<>>, err |-> "nil", calls |-> <<>>]
        s1 == buildPrefix(TopBit, proofStart, s0)
        s2 == IF s1.err # "nil" THEN s1 ELSE buildSkip(proofStart, proofEnd, s1)
    IN IF s2.err # "nil" THEN s2 ELSE buildSuffix(0, EndMask(proofEnd), s2)

\* ------------------------------------------------------------------ LeafHasher
NewReaderLeafHasher(r) == [kind |-> "reader", r |-> r, leafHashes |-> <<>>]

NewCachedLeafHasher(leafHashes) == [kind |-> "cached", r |-> <<>>, leafHashes |-> leafHashes]

\* ReaderLeafHasher.NextLeafHash
ReaderNextLeafHash(rlh) ==
    LET rd == ReadFull(rlh.r, LeafSize)
        rlh2 == [rlh EXCEPT !.r = rd.r]
    IN IF rd.err \notin {"nil", "EOF", "ErrUnexpectedEOF"}
       THEN [hash |-> nil, err |-> rd.err, lh |-> rlh2]
       ELSE IF rd.n = 0
       THEN [hash |-> nil, err |-> "EOF", lh |-> rlh2]
       ELSE [hash |-> leafSum(rd.buf), err |-> "nil", lh |-> rlh2]

\* CachedLeafHasher.NextLeafHash
CachedNextLeafHash(clh) ==
    IF Len(clh.leafHashes) = 0
    THEN [hash |-> nil, err |-> "EOF", lh |-> clh]
    ELSE [hash |-> clh.leafHashes[1], err |-> "nil",
          lh |-> [clh EXCEPT !.leafHashes = Tail(clh.leafHashes)]]

\* LeafHasher.NextLeafHash, by dynamic type
NextLeafHash(h) ==
    IF h.kind = "reader" THEN ReaderNextLeafHash(h) ELSE CachedNextLeafHash(h)

\* ------------------------------------------------------------------ VerifyRangeProof
\* st = [tree, proof, lh, err, panic, yielded]: the tree being rebuilt, the
\* proof hashes not yet used, the LeafHasher, the error to return, whether a
\* panic was raised, and the leaf hashes the LeafHasher has returned.

RECURSIVE verifyPrefixAscending(_, _, _)
\* verifyPrefix with the loop running from bit 0 up (i counts down all the same).
verifyPrefixAscending(i, proofStart, st) ==
    IF ~(i >= 0 /\ Len(st.proof) > 0) THEN st
    ELSE IF PrefixBit(proofStart, TopBit - i)
    THEN LET p == PushSubTree(st.tree, TopBit - i, st.proof[1])
         IN IF p.err # "nil"
            THEN [st EXCEPT !.panic = TRUE]
            ELSE verifyPrefixAscending(i - 1, proofStart,
                              [st EXCEPT !.tree = p.tree, !.proof = Tail(st.proof)])
    ELSE verifyPrefixAscending(i - 1, proofStart, st)

RECURSIVE verifyPrefix(_, _, _)
\* for i := 63; i >= 0 && len(proof) > 0; i-- : add proof hashes up to proofStart
verifyPrefix(i, proofStart, st) ==
    IF ~(i >= 0 /\ Len(st.proof) > 0) THEN st
    ELSE IF PrefixBit(proofStart, i)
    THEN LET p == PushSubTree(st.tree, i, st.proof[1])
         IN IF p.err # "nil"
            THEN [st EXCEPT !.panic = TRUE]
            ELSE verifyPrefix(i - 1, proofStart,
                              [st EXCEPT !.tree = p.tree, !.proof = Tail(st.proof)])
    ELSE verifyPrefix(i - 1, proofStart, st)

RECURSIVE verifyLeaves(_)
\* for { leafHash, err := lh.NextLeafHash(); ... } : add leaf hashes
verifyLeaves(st) ==
    LET res == NextLeafHash(st.lh)
    IN IF res.err = "EOF" THEN [st EXCEPT !.lh = res.lh]
       ELSE IF res.err # "nil" THEN [st EXCEPT !.lh = res.lh, !.err = res.err]
       ELSE LET p == PushSubTree(st.tree, 0, res.hash)
                got == Append(st.yielded, res.hash)
            IN IF p.err # "nil"
               THEN [st EXCEPT !.lh = res.lh, !.yielded = got, !.panic = TRUE]
               ELSE verifyLeaves([st EXCEPT !.lh = res.lh, !.yielded = got, !.tree = p.tree])

RECURSIVE verifySuffix(_, _, _)
\* for i := 0; i < 64 && len(proof) > 0; i++ : add proof hashes after proofEnd
verifySuffix(i, endMask, st) ==
    IF ~(i < NumBits /\ Len(st.proof) > 0) THEN st
    ELSE IF SuffixBit(endMask, i)
    THEN LET p == PushSubTree(st.tree, i, st.proof[1])
         IN IF p.err # "nil"
            THEN [st EXCEPT !.err = p.err]
            ELSE verifySuffix(i + 1, endMask,
                              [st EXCEPT !.tree = p.tree, !.proof = Tail(st.proof)])
    ELSE verifySuffix(i + 1, endMask, st)

\* return bytes.Equal(tree.Root(), root), nil
RootsEqual(tree, root) == Root(tree) = root

\* ------------------------------------------------------------------ inputs
\* The byte of leaf k (counted from 1): all-zero data as in the tests, or
\* data in which no two leaves are equal.
leafByte(k, uniform) == IF uniform THEN 0 ELSE k

\* leafData: numLeaves leaves, the last one lastLen bytes long.
LeafData(numLeaves, lastLen, uniform) ==
    IF numLeaves = 0 THEN <<>>
    ELSE [j \in 1..((numLeaves - 1) * LeafSize + lastLen) |->
            leafByte((j - 1) \div LeafSize + 1, uniform)]

\* The number of leaves of a stream, a short final leaf counting as one.
NumLeaves(b) == (Len(b) + LeafSize - 1) \div LeafSize

\* leafData[start*leafSize:end*leafSize], cut at the end of the data
LeafBytes(b, start, end) == SubSeq(b, start * LeafSize + 1, Min(end * LeafSize, Len(b)))

\* make([]byte, blake.Size()): a digest that is the hash of nothing
zeroDigest == <<"zero", <<>>>>

LeafCounts == (0..MaxLeaves) \cup {ExampleLeaves}

\* ------------------------------------------------------------------ state
VARIABLES
    leafData,     \* the bytes of the tree's leaves
    proofStart,   \* the range asked for
    proofEnd,
    sh,           \* the SubtreeHasher given to BuildRangeProof
    proof,        \* BuildRangeProof: the proof so far / returned
    err,          \* BuildRangeProof: the error returned
    calls,        \* the calls made on the SubtreeHasher, in order
    pc,           \* where the run is
    tamper,       \* how the proof given to VerifyRangeProof was corrupted
    lh,           \* the LeafHasher given to VerifyRangeProof
    vproof,       \* VerifyRangeProof: the proof hashes not yet used
    root,         \* VerifyRangeProof: the root to compare with
    tree,         \* VerifyRangeProof: the tree being rebuilt
    ok,           \* VerifyRangeProof: the boolean returned
    verr,         \* VerifyRangeProof: the error returned
    yielded       \* the leaf hashes NextLeafHash has returned, in order

vars == <<leafData, proofStart, proofEnd, sh, proof, err, calls, pc, tamper,
          lh, vproof, root, tree, ok, verr, yielded>>

buildVars == <<sh, proof, err, calls>>
verifyVars == <<tamper, lh, vproof, root, tree, ok, verr, yielded>>
inputVars == <<leafData, proofStart, proofEnd>>

\* The state before BuildRangeProof is called on cursor h.
InitBuild(h) ==
    /\ sh = h
    /\ proof = <<>>
    /\ err = "nil"
    /\ calls = <<>>
    /\ pc = "start"
    /\ tamper = "none"
    /\ lh = NewCachedLeafHasher(<<>>)
    /\ vproof = <<>>
    /\ root = nil
    /\ tree = New
    /\ ok = "none"
    /\ verr = "nil"
    /\ yielded = <<>>

\* Either kind of SubtreeHasher over the same leaves (buildSmallProof).
BaseHashers(b) == {NewReaderSubtreeHasher(b), NewCachedSubtreeHasher(leafHashesOf(b))}

Init ==
    /\ \E n \in LeafCounts, l \in 1..LeafSize, u \in BOOLEAN : leafData = LeafData(n, l, u)
    /\ proofStart \in -1..(NumLeaves(leafData) + MaxOver)
    /\ proofEnd \in 0..(NumLeaves(leafData) + MaxOver)
    /\ \E h \in BaseHashers(leafData) : InitBuild(h)

\* ------------------------------------------------------------------ BuildRangeProof, by phase
buildState == [sh |-> sh, proof |-> proof, err |-> err, calls |-> calls]

\* Where BuildRangeProof goes after a phase that left st.
AfterPhase(st, next) ==
    IF st.err = "panic" THEN "panic" ELSE IF st.err # "nil" THEN "failed" ELSE next

SetBuild(st, next) ==
    /\ sh' = st.sh
    /\ proof' = st.proof
    /\ err' = st.err
    /\ calls' = st.calls
    /\ pc' = AfterPhase(st, next)

\* if proofStart < 0 || proofStart > proofEnd || proofStart == proofEnd { panic }
BuildCheckRange ==
    /\ pc = "start"
    /\ pc' = IF IllegalRange(proofStart, proofEnd) THEN "panic" ELSE "prefix"
    /\ UNCHANGED <<inputVars, buildVars, verifyVars>>

BuildPrefix ==
    /\ pc = "prefix"
    /\ SetBuild(buildPrefix(TopBit, proofStart, buildState), "skip")
    /\ UNCHANGED <<inputVars, verifyVars>>

BuildSkip ==
    /\ pc = "skip"
    /\ SetBuild(buildSkip(proofStart, proofEnd, buildState), "suffix")
    /\ UNCHANGED <<inputVars, verifyVars>>

BuildSuffix ==
    /\ pc = "suffix"
    /\ SetBuild(buildSuffix(0, EndMask(proofEnd), buildState), "built")
    /\ UNCHANGED <<inputVars, verifyVars>>

\* ------------------------------------------------------------------ the tests' calls of VerifyRangeProof
\* Either kind of LeafHasher over the leaves of the range (verifySmallProof).
RangeLeafHashers ==
    {NewReaderLeafHasher(LeafBytes(leafData, proofStart, proofEnd)),
     NewCachedLeafHasher(SubSeq(leafHashesOf(leafData), proofStart + 1, proofEnd))}

\* Call VerifyRangeProof on proof p, the leaves of the range and the true root.
CallVerify(p, how) ==
    /\ \E h \in RangeLeafHashers : lh' = h
    /\ vproof' = p
    /\ root' = bytesRoot(leafData)
    /\ tamper' = how
    /\ tree' = New
    /\ yielded' = <<>>
    /\ pc' = "vstart"
    /\ UNCHANGED <<inputVars, buildVars, ok, verr>>

\* verifySmallProof(start, end, proof, nLeaves)
VerifyHonest ==
    /\ pc = "built"
    /\ CallVerify(proof, "none")

\* Digests a corrupted proof may hold.
Candidates ==
    {zeroDigest, nil, bytesRoot(leafData)}
    \cup {proof[i] : i \in 1..Len(proof)}
    \cup {leafHashesOf(leafData)[i] : i \in 1..NumLeaves(leafData)}

\* case 0: modify an element of the proof
TamperModify ==
    /\ pc = "built"
    /\ proof # <<>>
    /\ \E i \in 1..Len(proof) : \E d \in Candidates \ {proof[i]} :
          CallVerify([proof EXCEPT ![i] = d], "modify")

\* case 1: add an element to the proof: append a zero digest, then swap it
\* with the element at a random index
TamperAddSwap ==
    /\ pc = "built"
    /\ proof # <<>>
    /\ \E i \in 1..(Len(proof) + 1) :
          LET p == Append(proof, zeroDigest)
          IN CallVerify([p EXCEPT ![i] = p[Len(p)], ![Len(p)] = p[i]], "addswap")

\* case 1, in general: insert any digest at any index of the proof
TamperAdd ==
    /\ pc = "built"
    /\ proof # <<>>
    /\ \E i \in 1..(Len(proof) + 1) : \E d \in Candidates :
          CallVerify(SubSeq(proof, 1, i - 1) \o <<d>> \o SubSeq(proof, i, Len(proof)), "add")

\* case 2: delete a random element of the proof
TamperDelete ==
    /\ pc = "built"
    /\ proof # <<>>
    /\ \E i \in 1..Len(proof) :
          CallVerify(SubSeq(proof, 1, i - 1) \o SubSeq(proof, i + 1, Len(proof)), "delete")

\* ------------------------------------------------------------------ VerifyRangeProof, by phase
verifyState ==
    [tree |-> tree, proof |-> vproof, lh |-> lh, err |-> "nil", panic |-> FALSE,
     yielded |-> yielded]

SetVerify(st, next) ==
    /\ tree' = st.tree
    /\ vproof' = st.proof
    /\ lh' = st.lh
    /\ yielded' = st.yielded
    /\ verr' = st.err
    /\ ok' = IF st.panic THEN "none" ELSE IF st.err # "nil" THEN FALSE ELSE ok
    /\ pc' = IF st.panic THEN "vpanic" ELSE IF st.err # "nil" THEN "verified" ELSE next

\* if proofStart < 0 || proofStart > proofEnd || proofStart == proofEnd { panic }
VerifyCheckRange ==
    /\ pc = "vstart"
    /\ pc' = IF IllegalRange(proofStart, proofEnd) THEN "vpanic" ELSE "vprefix"
    /\ UNCHANGED <<inputVars, buildVars, verifyVars>>

VerifyPrefix ==
    /\ pc = "vprefix"
    /\ SetVerify(verifyPrefix(TopBit, proofStart, verifyState), "vleaves")
    /\ UNCHANGED <<inputVars, buildVars, tamper, root>>

VerifyLeaves ==
    /\ pc = "vleaves"
    /\ SetVerify(verifyLeaves(verifyState), "vsuffix")
    /\ UNCHANGED <<inputVars, buildVars, tamper, root>>

VerifySuffix ==
    /\ pc = "vsuffix"
    /\ LET st == verifySuffix(0, EndMask(proofEnd), verifyState)
       IN /\ tree' = st.tree
          /\ vproof' = st.proof
          /\ lh' = st.lh
          /\ yielded' = st.yielded
          /\ verr' = st.err
          /\ ok' = IF st.err # "nil" THEN FALSE ELSE RootsEqual(st.tree, root)
          /\ pc' = "verified"
    /\ UNCHANGED <<inputVars, buildVars, tamper, root>>

Build == BuildCheckRange \/ BuildPrefix \/ BuildSkip \/ BuildSuffix

Verify == VerifyCheckRange \/ VerifyPrefix \/ VerifyLeaves \/ VerifySuffix

\* TestBuildVerifyRangeProof and TestBuildProofRangeEOF: build a proof, verify it.
Next == Build \/ VerifyHonest \/ Verify

Spec == Init /\ [][Next]_vars

\* ---- TestBuildVerifyRangeProof, "corrupt the proof; it should fail to verify"
InitTamper ==
    /\ \E n \in 1..MaxTamperLeaves, l \in 1..LeafSize, u \in BOOLEAN : leafData = LeafData(n, l, u)
    /\ proofStart \in 0..(NumLeaves(leafData) - 1)
    /\ proofEnd \in (proofStart + 1)..NumLeaves(leafData)
    /\ \E h \in BaseHashers(leafData) : InitBuild(h)

NextTamper == Build \/ TamperModify \/ TamperAddSwap \/ TamperAdd \/ TamperDelete \/ Verify

SpecTamper == InitTamper /\ [][NextTamper]_vars

\* ---- VerifyRangeProof on untrusted input: any proof, any leaves, any root
\* Digests an untrusted proof may hold.
UntrustedDigests == {zeroDigest, leafSum(<<1>>)}

\* The proofs of at most MaxProofLen digests.
UntrustedProofs ==
    UNION {[1..k -> UntrustedDigests] : k \in 0..MaxProofLen}

\* LeafHashers yielding any number of leaves, whatever the range.
UntrustedLeafHashers ==
    {NewCachedLeafHasher(leafHashesOf(LeafData(n, LeafSize, TRUE))) : n \in 0..MaxVerifyLeaves}
    \cup {NewReaderLeafHasher(LeafData(n, l, FALSE)) : n \in 0..MaxVerifyLeaves, l \in 1..LeafSize}

InitVerify ==
    /\ leafData = <<>>
    /\ proofStart \in -1..MaxVerifyEnd
    /\ proofEnd \in 0..MaxVerifyEnd
    /\ sh = NewCachedSubtreeHasher(<<>>)
    /\ proof = <<>>
    /\ err = "nil"
    /\ calls = <<>>
    /\ pc = "vstart"
    /\ tamper = "none"
    /\ lh \in UntrustedLeafHashers
    /\ vproof \in UntrustedProofs
    /\ root \in {nil, bytesRoot(LeafData(2, LeafSize, TRUE))}
    /\ tree = New
    /\ ok = "none"
    /\ verr = "nil"
    /\ yielded = <<>>

NextVerify == Verify

SpecVerify == InitVerify /\ [][NextVerify]_vars

\* ---- TestBuildVerifyRangeProof, "test a proof with precomputed inputs"
\* The sizes of precalculated blocks: the powers of two that divide n.
BlockSizes(n) == {bs \in {1, 2, 4, 8} : n % bs = 0}

\* precalcRoots: the roots of the n / bs blocks of bs leaves, in order.
precalcRoots(b, bs) ==
    [k \in 1..(NumLeaves(b) \div bs) |-> bytesRoot(LeafBytes(b, (k - 1) * bs, k * bs))]

InitPrecalc ==
    /\ \E n \in LeafCounts \ {0}, l \in 1..LeafSize, u \in BOOLEAN : leafData = LeafData(n, l, u)
    /\ proofStart \in 0..(NumLeaves(leafData) + MaxOver - 1)
    /\ proofEnd \in (proofStart + 1)..(NumLeaves(leafData) + MaxOver)
    /\ \E h \in BaseHashers(leafData), bs \in BlockSizes(NumLeaves(leafData)) :
          InitBuild(newPrecalcSubtreeHasher(precalcRoots(leafData, bs), bs, h))

NextPrecalc == Build

SpecPrecalc == InitPrecalc /\ [][NextPrecalc]_vars

\* ---- a caller of the SubtreeHasher interface: any calls, in any order
\* Here proof holds the values NextSubtreeRoot returned (nil included), err
\* the error of the latest call, and calls the calls made.
InitCursor ==
    /\ \E n \in 0..MaxCursorLeaves, l \in 1..LeafSize, u \in BOOLEAN : leafData = LeafData(n, l, u)
    /\ proofStart = 0
    /\ proofEnd = 0
    /\ \E h \in BaseHashers(leafData) : InitBuild(h)

\* root, err := sh.NextSubtreeRoot(n)
CursorNextSubtreeRoot ==
    /\ pc = "start"
    /\ Len(calls) < MaxCalls
    /\ \E n \in 1..(NumLeaves(leafData) + 1) :
          LET res == NextSubtreeRoot(sh, n)
          IN /\ sh' = res.sh
             /\ err' = res.err
             /\ proof' = Append(proof, res.root)
             /\ calls' = Append(calls, Call("NextSubtreeRoot", n, res.err))
    /\ UNCHANGED <<inputVars, verifyVars, pc>>

\* err := sh.Skip(n)
CursorSkip ==
    /\ pc = "start"
    /\ Len(calls) < MaxCalls
    /\ \E n \in 0..(NumLeaves(leafData) + 1) :
          LET res == Skip(sh, n)
          IN /\ sh' = res.sh
             /\ err' = res.err
             /\ calls' = Append(calls, Call("Skip", n, res.err))
    /\ UNCHANGED <<inputVars, verifyVars, pc, proof>>

NextCursor == CursorNextSubtreeRoot \/ CursorSkip

SpecCursor == InitCursor /\ [][NextCursor]_vars

\* ---- a caller of BuildRangeProof or VerifyRangeProof with any range
InitPrecondition ==
    /\ \E n \in 0..MaxCursorLeaves, l \in 1..LeafSize, u \in BOOLEAN : leafData = LeafData(n, l, u)
    /\ proofStart \in -1..(NumLeaves(leafData) + MaxOver)
    /\ proofEnd \in 0..(NumLeaves(leafData) + MaxOver)
    /\ \E h \in BaseHashers(leafData) : InitBuild(h)

\* VerifyRangeProof(lh, h, proofStart, proofEnd, proof, root) on a proof of at
\* most one digest and a LeafHasher over the leaves of the whole tree.
VerifyUnbuilt ==
    /\ pc = "start"
    /\ lh' \in {NewReaderLeafHasher(leafData), NewCachedLeafHasher(leafHashesOf(leafData))}
    /\ vproof' \in {p \in UntrustedProofs : Len(p) <= 1}
    /\ root' = bytesRoot(leafData)
    /\ tree' = New
    /\ yielded' = <<>>
    /\ pc' = "vstart"
    /\ UNCHANGED <<inputVars, buildVars, tamper, ok, verr>>

NextPrecondition == Build \/ VerifyUnbuilt \/ Verify

SpecPrecondition == InitPrecondition /\ [][NextPrecondition]_vars

\* ---- VerifyRangeProof against the true root: any proof, any leaf hashes
\* The sequences over S of length at most k.
SeqsUpTo(S, k) == UNION {[1..j -> S] : j \in 0..k}

\* The digests of the tree of b: the roots of its subtrees of 2^h leaves that
\* start at a multiple of 2^h (the last one cut at the end), and a foreign one.
TreeDigests(b) ==
    {zeroDigest} \cup
    {bytesRoot(LeafBytes(b, k * (2 ^ h), (k + 1) * (2 ^ h))) :
        <<h, k>> \in {x \in (0..NumLeaves(b)) \X (0..NumLeaves(b)) :
                        (x[2] * (2 ^ x[1])) < NumLeaves(b)}}

InitSound ==
    /\ \E n \in 1..MaxSoundLeaves : leafData = LeafData(n, LeafSize, FALSE)
    /\ proofStart \in 0..(NumLeaves(leafData) - 1)
    /\ proofEnd \in (proofStart + 1)..NumLeaves(leafData)
    /\ sh = NewCachedSubtreeHasher(<<>>)
    /\ proof = <<>>
    /\ err = "nil"
    /\ calls = <<>>
    /\ pc = "vstart"
    /\ tamper = "none"
    /\ \E L \in SeqsUpTo({leafHashesOf(leafData)[i] : i \in 1..NumLeaves(leafData)}, MaxSoundSeq) :
          lh = NewCachedLeafHasher(L)
    /\ vproof \in SeqsUpTo(TreeDigests(leafData), MaxSoundProofLen)
    /\ root = bytesRoot(leafData)
    /\ tree = New
    /\ ok = "none"
    /\ verr = "nil"
    /\ yielded = <<>>

NextSound == Verify

SpecSound == InitSound /\ [][NextSound]_vars

\* ---- a caller of Tree: any pushes, in any order
RECURSIVE treeLeaves(_)
\* The number of leaves a stack of subtrees stands for.
treeLeaves(t) == IF t = <<>> THEN 0 ELSE 2 ^ t[1].height + treeLeaves(Tail(t))

InitTree ==
    /\ leafData = <<>>
    /\ proofStart = 0
    /\ proofEnd = 0
    /\ sh = NewCachedSubtreeHasher(<<>>)
    /\ proof = <<>>
    /\ err = "nil"
    /\ calls = <<>>
    /\ pc = "tree"
    /\ tamper = "none"
    /\ lh = NewCachedLeafHasher(<<>>)
    /\ vproof = <<>>
    /\ root = nil
    /\ tree = New
    /\ ok = "none"
    /\ verr = "nil"
    /\ yielded = <<>>

\* tree.Push(data)
TreePush ==
    /\ pc = "tree"
    /\ treeLeaves(tree) < MaxTreeLeaves
    /\ \E data \in {<<0>>, <<1, 1>>} : tree' = Push(tree, data)
    /\ verr' = "nil"
    /\ UNCHANGED <<inputVars, buildVars, pc, tamper, lh, vproof, root, ok, yielded>>

\* err := tree.PushSubTree(height, sum); verr holds the error
TreePushSubTree ==
    /\ pc = "tree"
    /\ \E height \in 0..MaxTreeHeight, sum \in UntrustedDigests :
          /\ treeLeaves(tree) + 2 ^ height <= MaxTreeLeaves
          /\ tree' = PushSubTree(tree, height, sum).tree
          /\ verr' = PushSubTree(tree, height, sum).err
    /\ UNCHANGED <<inputVars, buildVars, pc, tamper, lh, vproof, root, ok, yielded>>

NextTree == TreePush \/ TreePushSubTree

SpecTree == InitTree /\ [][NextTree]_vars

\* ---- TestBuildVerifyRangeProof on trees of 2^k leaves, every range within
InitPowerOfTwo ==
    /\ \E k \in 2..MaxDepth, l \in 1..LeafSize, u \in BOOLEAN : leafData = LeafData(2 ^ k, l, u)
    /\ proofStart \in 0..(NumLeaves(leafData) - 1)
    /\ proofEnd \in (proofStart + 1)..NumLeaves(leafData)
    /\ \E h \in BaseHashers(leafData) : InitBuild(h)

NextPowerOfTwo == Build

SpecPowerOfTwo == InitPowerOfTwo /\ [][NextPowerOfTwo]_vars

\* ------------------------------------------------------------------ properties
\* 0 <= proofStart < proofEnd <= N
InRange ==
    /\ 0 <= proofStart
    /\ proofStart < proofEnd
    /\ proofEnd <= NumLeaves(leafData)

\* Every leaf of the stream has the full leaf size.
FullLeaves == Len(leafData) % LeafSize = 0

\* The final leaf of the stream is short and the SubtreeHasher reads the stream.
ShortLeafReader == ~FullLeaves /\ sh.kind = "reader"

\* C1. Round trip: for a range within the N leaves, BuildRangeProof returns a
\* proof, and VerifyRangeProof, given that proof, the leaves of the range and
\* the true root, returns true and no error; with either kind of source.
RoundTrip ==
    InRange =>
        /\ pc \notin {"failed", "panic", "vpanic"}
        /\ (pc = "verified" /\ tamper = "none") => (ok = TRUE /\ verr = "nil")

\* The round trip on every source but a stream reader over a short final leaf.
RoundTripFullLeaves == ~ShortLeafReader => RoundTrip

\* A round trip has completed on a range strictly inside a tree.
RoundTripDone ==
    /\ InRange /\ proofStart > 0 /\ proofEnd < NumLeaves(leafData)
    /\ pc = "verified" /\ tamper = "none" /\ ok = TRUE
    /\ Len(proof) >= 3

\* ---- arithmetic of the statements (independent of the code's bit tests)
\* Bit positions that matter for the trees of the model.
Width == 6

\* bit i of x
BitOf(x, i) == (x \div (2 ^ i)) % 2

\* the number of set bits of x
PopCount(x) == Cardinality({i \in 0..Width : BitOf(x, i) = 1})

\* ceil(log2 n): the depth of a tree of n leaves
CeilLog2(n) == CHOOSE k \in 0..Width : 2 ^ k >= n /\ \A j \in 0..Width : 2 ^ j >= n => j >= k

N == NumLeaves(leafData)

\* subtreeRoot(i, j) of the tests: the root of leaves i..j-1 as a tree of their own.
subtreeRoot(i, j) == bytesRoot(LeafBytes(leafData, i, j))

RECURSIVE prefixSegments(_, _, _)
\* Segments of size 2^i for the set bits i of start, from bit i down, from pos on.
prefixSegments(i, start, pos) ==
    IF i < 0 THEN <<>>
    ELSE IF BitOf(start, i) = 1
    THEN <<subtreeRoot(pos, pos + 2 ^ i)>> \o prefixSegments(i - 1, start, pos + 2 ^ i)
    ELSE prefixSegments(i - 1, start, pos)

RECURSIVE suffixSegments(_, _, _, _)
\* Segments of size 2^i for the clear bits i of endMask, from bit i up, from pos
\* on, the last one cut at n.
suffixSegments(i, endMask, pos, n) ==
    IF pos >= n THEN <<>>
    ELSE IF BitOf(endMask, i) = 0
    THEN <<subtreeRoot(pos, Min(pos + 2 ^ i, n))>> \o suffixSegments(i + 1, endMask, pos + 2 ^ i, n)
    ELSE suffixSegments(i + 1, endMask, pos, n)

\* The canonical tiling of [0, start) and [end, n) by subtree roots.
Tiling(start, end, n) ==
    prefixSegments(Width, start, 0) \o suffixSegments(0, end - 1, end, n)

\* BuildRangeProof has returned (a proof or an error).
BuildReturned == pc \notin {"start", "prefix", "skip", "suffix", "panic"}

\* BuildRangeProof has returned a proof and no error.
BuildSucceeded == BuildReturned /\ pc # "failed"

\* C6 (as it holds). Whenever BuildRangeProof returns a proof for a range within
\* the tree, the proof is the canonical tiling.
TilingWhenBuilt == (InRange /\ BuildSucceeded) => proof = Tiling(proofStart, proofEnd, N)

\* The build fails on a range within the tree only for a reader over a short
\* final leaf, on a range that holds that leaf.
FailsOnlyOnShortLeaf ==
    (InRange /\ pc \in {"failed", "panic"}) =>
        (ShortLeafReader /\ proofEnd = N /\ err = "ErrUnexpectedEOF")

\* C2. Tamper sensitivity: a proof got from a non-empty honest proof by
\* replacing one entry with another digest, inserting one digest anywhere or
\* deleting one entry is never accepted: VerifyRangeProof, given the honest
\* leaves of the range and the true root, returns false (and does not panic).
TamperRejected ==
    tamper # "none" =>
        /\ pc # "vpanic"
        /\ pc = "verified" => ok = FALSE

\* A proof with one digest inserted among at least two honest entries was rejected.
TamperedProofRejected ==
    /\ pc = "verified" /\ tamper = "add" /\ ok = FALSE
    /\ Len(proof) >= 2 /\ proofStart > 0 /\ proofEnd < N

\* C3. VerifyRangeProof never panics on untrusted input: for a legal range,
\* whatever the proof and however many leaves the LeafHasher yields, no
\* PushSubTree of the prefix or leaf phase fails, and a PushSubTree failing in
\* the suffix phase is returned as (false, error).
VerifyNeverPanics ==
    ~IllegalRange(proofStart, proofEnd) =>
        /\ pc # "vpanic"
        /\ (pc = "verified" /\ verr # "nil") => ok = FALSE

\* A corrupted proof made a suffix-phase PushSubTree fail, after a prefix of
\* two or more subtrees and some leaves had been pushed.
HeightErrorReturned ==
    /\ pc = "verified" /\ verr = "HeightError" /\ ok = FALSE
    /\ PopCount(proofStart) >= 2 /\ Len(tree) >= 2

\* C4. Underflow: for a legal range that ends past the N >= 1 leaves of the
\* source (also one that starts past them), BuildRangeProof returns
\* io.ErrUnexpectedEOF and no proof, with either kind of SubtreeHasher.
UnderflowUnexpectedEOF ==
    (~IllegalRange(proofStart, proofEnd) /\ N >= 1 /\ proofEnd > N /\ pc \notin {"start", "prefix", "skip"}) =>
        (pc = "failed" /\ err = "ErrUnexpectedEOF" /\ proof = nil)

\* What holds of an underflow: some error and no proof, the error being
\* io.ErrUnexpectedEOF when the range starts within the data (proofStart <= N).
UnderflowFails ==
    (~IllegalRange(proofStart, proofEnd) /\ proofEnd > N /\ pc \notin {"start", "prefix", "skip"}) =>
        /\ pc = "failed" /\ proof = nil
        /\ err \in {"ErrUnexpectedEOF", "EOF"}
        /\ proofStart <= N => err = "ErrUnexpectedEOF"

\* The cursor the precalcSubtreeHasher wraps, as it was given to it.
FreshBase ==
    IF sh.sh.kind = "reader" THEN NewReaderSubtreeHasher(leafData)
    ELSE NewCachedSubtreeHasher(leafHashesOf(leafData))

\* C5. Precalculated equivalence: for a range within a tree of full leaves,
\* BuildRangeProof over the precalcSubtreeHasher (blocks of a power-of-two size
\* dividing N, precalc holding their true roots) returns the proof, entry for
\* entry, that BuildRangeProof over the wrapped SubtreeHasher alone returns.
PrecalcEquivalence ==
    (InRange /\ FullLeaves /\ pc \in {"built", "failed", "panic"}) =>
        /\ pc # "panic"
        /\ proof = BuildRangeProof(proofStart, proofEnd, FreshBase).proof
        /\ err = BuildRangeProof(proofStart, proofEnd, FreshBase).err

\* C6. Canonical tiling: for a range within the tree, BuildRangeProof returns
\* the roots of the segments that tile [0, start) by the set bits of start,
\* largest first, and [end, N) by the clear bits of end-1, smallest first;
\* for N = 12 and [3, 5): the roots of [0,2), [2,3), [5,6), [6,8), [8,12).
ProofIsTiling ==
    /\ (InRange /\ pc \notin {"start", "prefix", "skip", "suffix"}) =>
          (BuildSucceeded /\ proof = Tiling(proofStart, proofEnd, N))
    /\ (N = ExampleLeaves /\ proofStart = 3 /\ proofEnd = 5 /\ BuildReturned) =>
          proof = <<subtreeRoot(0, 2), subtreeRoot(2, 3), subtreeRoot(5, 6),
                    subtreeRoot(6, 8), subtreeRoot(8, 12)>>

\* C7. The proof of the whole tree is empty: BuildRangeProof(0, N) returns a
\* zero-length proof and no error.
WholeTreeProofEmpty ==
    (N >= 1 /\ proofStart = 0 /\ proofEnd = N /\ pc \notin {"start", "prefix", "skip", "suffix"}) =>
        (BuildSucceeded /\ err = "nil" /\ Len(proof) = 0)

\* BuildRangeProof was asked for the first leaf / the last leaf of the tree.
FirstLeaf == proofStart = 0 /\ proofEnd = 1
LastLeaf == proofStart = N - 1 /\ proofEnd = N

\* C8 (as stated). For N >= 2, BuildRangeProof(0, 1) and BuildRangeProof(N-1, N)
\* each yield a proof whose length is the depth of the tree, ceil(log2 N)
\* (stated here for the sources all of whose leaves can be skipped).
SingleLeafLengthIsDepth ==
    (N >= 2 /\ ~ShortLeafReader /\ BuildReturned /\ (FirstLeaf \/ LastLeaf)) =>
        (BuildSucceeded /\ Len(proof) = CeilLog2(N))

\* C8 (amended). For N >= 2, BuildRangeProof(0, 1) yields a proof of length
\* ceil(log2 N).  BuildRangeProof(N-1, N) yields a proof whose length is the
\* number of set bits of N-1, which is ceil(log2 N) when N is a power of two
\* and less otherwise; except that over a ReaderSubtreeHasher whose final
\* leaf is short it returns io.ErrUnexpectedEOF.
SingleLeafLength ==
    (N >= 2 /\ BuildReturned) =>
        /\ FirstLeaf => (BuildSucceeded /\ Len(proof) = CeilLog2(N))
        /\ LastLeaf =>
              IF pc = "failed" THEN ShortLeafReader /\ err = "ErrUnexpectedEOF"
              ELSE /\ Len(proof) = PopCount(N - 1)
                   /\ Len(proof) <= CeilLog2(N)
                   /\ (Len(proof) = CeilLog2(N)) <=> (2 ^ CeilLog2(N) = N)

\* The proof of the last leaf of a tree that is no power of two was built, and
\* is shorter than the tree is deep.
LastLeafProofShort ==
    /\ N >= 3 /\ LastLeaf /\ pc = "built"
    /\ Len(proof) = PopCount(N - 1) /\ Len(proof) < CeilLog2(N)

RECURSIVE foldAscending(_, _)
\* for i := range proof { checkRoot = nodeHash(checkRoot, proof[i]) }
foldAscending(acc, p) ==
    IF p = <<>> THEN acc ELSE foldAscending(nodeSum(acc, p[1]), Tail(p))

RECURSIVE foldDescending(_, _)
\* for i := range proof { checkRoot = nodeHash(proof[len(proof)-i-1], checkRoot) }
foldDescending(acc, p) ==
    IF p = <<>> THEN acc
    ELSE foldDescending(nodeSum(p[Len(p)], acc), SubSeq(p, 1, Len(p) - 1))

\* leafHash of leaf k (counted from 0) of the tree
leafHash(k) == leafHashesOf(leafData)[k + 1]

\* C9. For N >= 1, BuildRangeProof(0, 1) returns a proof that, folded onto the
\* hash of leaf 0 from the left in ascending order, gives the root; and
\* BuildRangeProof(N-1, N) returns a proof that, folded onto the hash of leaf
\* N-1 from the right in descending order, gives the root.
SingleLeafRecombines ==
    (N >= 1 /\ BuildReturned) =>
        /\ FirstLeaf => (BuildSucceeded /\ foldAscending(leafHash(0), proof) = bytesRoot(leafData))
        /\ LastLeaf => (BuildSucceeded /\ foldDescending(leafHash(N - 1), proof) = bytesRoot(leafData))

\* The recombination on every source but a stream reader over a short final leaf.
SingleLeafRecombinesFullLeaves == ~ShortLeafReader => SingleLeafRecombines

\* The number of clear bits of x at the positions below w.
ClearBitsBelow(x, w) == Cardinality({i \in 0..(w - 1) : BitOf(x, i) = 0})

\* C10. Proof length bound: for a range within the tree, the proof has at most
\* (set bits of start) + (clear bits of end-1 below bit ceil(log2 N)) entries.
ProofLengthBound ==
    InRange =>
        Len(proof) <= PopCount(proofStart) + ClearBitsBelow(proofEnd - 1, CeilLog2(N))

\* A proof with prefix and suffix entries was built, as long as the bound allows.
ProofAtBound ==
    /\ InRange /\ pc = "built" /\ Len(proof) >= 4
    /\ PopCount(proofStart) >= 2
    /\ Len(proof) = PopCount(proofStart) + ClearBitsBelow(proofEnd - 1, CeilLog2(N))

\* ---- the SubtreeHasher contract
\* The hashes of the leaves a cursor has not yet passed, a short final leaf of
\* a stream counting as one leaf.
remaining(h) == IF h.kind = "reader" THEN leafHashesOf(h.r) ELSE h.leafHashes

\* The largest power of two smaller than n (n >= 2).
SplitPoint(n) == CHOOSE k \in {2 ^ j : j \in 0..Width} : k < n /\ 2 * k >= n

RECURSIVE MerkleRoot(_)
\* The Merkle root of a non-empty list of leaf hashes: the left subtree is the
\* largest complete one that leaves the right subtree a leaf.
MerkleRoot(hs) ==
    IF Len(hs) = 1 THEN hs[1]
    ELSE nodeSum(MerkleRoot(SubSeq(hs, 1, SplitPoint(Len(hs)))),
                 MerkleRoot(SubSeq(hs, SplitPoint(Len(hs)) + 1, Len(hs))))

\* hs without its first n elements
Drop(hs, n) == SubSeq(hs, n + 1, Len(hs))

\* The step is a call of Skip / of NextSubtreeRoot on the cursor.
SkipStep == calls' # calls /\ calls'[Len(calls')].op = "Skip"
NextRootStep == calls' # calls /\ calls'[Len(calls')].op = "NextSubtreeRoot"

\* C11. Skip contract, for both SubtreeHashers, a short final leaf of a stream
\* counting as one leaf: Skip(n) with at least n leaves left returns nil and
\* moves the cursor past exactly n leaves (also when exactly n are left, and a
\* NextSubtreeRoot that follows then returns io.EOF); with fewer than n leaves
\* left it returns io.ErrUnexpectedEOF.
SkipContract ==
    [][/\ SkipStep =>
            LET n == calls'[Len(calls')].n
                left == remaining(sh)
            IN IF n <= Len(left)
               THEN err' = "nil" /\ remaining(sh') = Drop(left, n)
               ELSE err' = "ErrUnexpectedEOF"
       /\ (NextRootStep /\ calls # <<>> /\ calls[Len(calls)].op = "Skip"
              /\ remaining(sh) = <<>>) => err' = "EOF"]_vars

\* The Skip contract on every cursor but a stream reader over a short final leaf.
SkipContractFullLeaves ==
    [][/\ (SkipStep /\ ~ShortLeafReader) =>
            LET n == calls'[Len(calls')].n
                left == remaining(sh)
            IN IF n <= Len(left)
               THEN err' = "nil" /\ remaining(sh') = Drop(left, n)
               ELSE err' = "ErrUnexpectedEOF"
       /\ (NextRootStep /\ calls # <<>> /\ calls[Len(calls)].op = "Skip"
              /\ remaining(sh) = <<>>) => err' = "EOF"]_vars

\* The reader's Skip fails only in passing a short final leaf, and then with
\* io.ErrUnexpectedEOF at the end of the stream.
SkipShortLeaf ==
    [][(SkipStep /\ ShortLeafReader) =>
            LET n == calls'[Len(calls')].n
                left == remaining(sh)
            IN IF n < Len(left) \/ n = 0
               THEN err' = "nil" /\ remaining(sh') = Drop(left, n)
               ELSE err' = "ErrUnexpectedEOF" /\ remaining(sh') = <<>>]_vars

\* C12. NextSubtreeRoot contract, for both SubtreeHashers: with r >= 1 leaves
\* left, NextSubtreeRoot(n), n >= 1, returns the Merkle root of the next
\* min(n, r) leaves and a nil error, and moves the cursor past exactly those
\* leaves; with no leaf left it returns io.EOF and no root.
NextSubtreeRootContract ==
    [][NextRootStep =>
          LET n == calls'[Len(calls')].n
              left == remaining(sh)
              k == Min(n, Len(left))
              ret == proof'[Len(proof')]
          IN IF Len(left) >= 1
             THEN /\ err' = "nil"
                  /\ ret = MerkleRoot(SubSeq(left, 1, k))
                  /\ remaining(sh') = Drop(left, k)
             ELSE err' = "EOF" /\ ret = nil /\ sh' = sh]_vars

\* After NextSubtreeRoot(2), NextSubtreeRoot(3) found two leaves left of four,
\* the last one short, returned their root, and left the cursor at the end.
NextSubtreeRootCutShort ==
    /\ Len(calls) = 2
    /\ calls[1] = Call("NextSubtreeRoot", 2, "nil")
    /\ calls[2] = Call("NextSubtreeRoot", 3, "nil")
    /\ N = 4 /\ ~FullLeaves
    /\ proof[2] = subtreeRoot(2, 4) /\ remaining(sh) = <<>>

\* ---- the two sources
\* A fresh SubtreeHasher of the other kind over the same leaves.
OtherBase ==
    IF sh.kind = "reader" THEN NewCachedSubtreeHasher(leafHashesOf(leafData))
    ELSE NewReaderSubtreeHasher(leafData)

\* C13. Source interchangeability: for every stream (also one with a short
\* final leaf) and every legal range (also one past the end of the data),
\* BuildRangeProof over the ReaderSubtreeHasher and over the
\* CachedSubtreeHasher of the stream's leaf hashes return the same proof or
\* the same error.
SourcesAgree ==
    (~IllegalRange(proofStart, proofEnd) /\ BuildReturned) =>
        /\ proof = BuildRangeProof(proofStart, proofEnd, OtherBase).proof
        /\ err = BuildRangeProof(proofStart, proofEnd, OtherBase).err

\* The two sources agree on every stream of full leaves, and on every range
\* that ends before a short final leaf.
SourcesAgreeFullLeaves ==
    (FullLeaves \/ proofEnd < N) => SourcesAgree

\* Where the stream's final leaf is short and the range ends at or after it,
\* the reader fails with io.ErrUnexpectedEOF.
ReaderFailsOnShortLeaf ==
    (~IllegalRange(proofStart, proofEnd) /\ BuildReturned /\ ShortLeafReader
        /\ proofStart <= N /\ proofEnd >= N) =>
        (pc = "failed" /\ err = "ErrUnexpectedEOF")

\* ---- the precondition
\* start < 0 or start >= end
BadRange == proofStart < 0 \/ proofStart >= proofEnd

\* C14. Precondition abort: BuildRangeProof and VerifyRangeProof panic when
\* start < 0 or start >= end, before any call on the cursor (NextSubtreeRoot,
\* Skip, NextLeafHash) and any push on the tree, so the cursor is as it was;
\* for 0 <= start < end the test of the precondition does not panic.
PreconditionAbort ==
    [][/\ (pc = "start" /\ pc' # "vstart") =>
            /\ pc' = (IF BadRange THEN "panic" ELSE "prefix")
            /\ UNCHANGED <<sh, calls, proof, err>>
       /\ pc = "vstart" =>
            /\ pc' = (IF BadRange THEN "vpanic" ELSE "vprefix")
            /\ UNCHANGED <<lh, tree, vproof, verr, ok>>
       /\ BadRange => pc' \in {"vstart", "panic", "vpanic"}]_vars

\* VerifyRangeProof has panicked on an empty range, its proof and the leaves
\* of its LeafHasher untouched.
PanickedOnEmptyRange ==
    /\ proofStart = proofEnd /\ proofStart >= 1 /\ N >= 2
    /\ pc = "vpanic" /\ Len(vproof) = 1 /\ tree = New
    /\ lh \in {NewReaderLeafHasher(leafData), NewCachedLeafHasher(leafHashesOf(leafData))}

\* ---- soundness
\* C15. Position soundness: with an injective hash and pairwise different
\* leaves, whenever VerifyRangeProof, given the true root of the N-leaf tree, a
\* range within it, any proof and any leaf hashes L, returns true, L is the
\* hashes of leaves start..end-1 of the tree, in order.
PositionSound ==
    (pc = "verified" /\ ok = TRUE) =>
        yielded = SubSeq(leafHashesOf(leafData), proofStart + 1, proofEnd)

\* Position soundness where the LeafHasher returned exactly end - start leaf
\* hashes.
PositionSoundExactCount ==
    (pc = "verified" /\ ok = TRUE /\ Len(yielded) = proofEnd - proofStart) =>
        yielded = SubSeq(leafHashesOf(leafData), proofStart + 1, proofEnd)

\* What VerifyRangeProof accepts is a proof and leaf hashes that, laid side by
\* side, rebuild the true root: the leaf hashes are consecutive leaves of the
\* tree, but they need not number end - start nor start at leaf start.
AcceptedLeavesAreConsecutive ==
    (pc = "verified" /\ ok = TRUE) =>
        \E i \in 0..N : yielded = SubSeq(leafHashesOf(leafData), i + 1, i + Len(yielded))

\* VerifyRangeProof accepted the last two leaves of three with a proof of
\* one digest.
AcceptedInPlace ==
    /\ pc = "verified" /\ ok = TRUE /\ verr = "nil"
    /\ N = 3 /\ proofStart = 1 /\ proofEnd = 3
    /\ Len(yielded) = 2 /\ vproof = <<>>

\* ---- the calls BuildRangeProof makes
\* The latest call on the SubtreeHasher.
LastCall == calls[Len(calls)]

\* Call k was made after the Skip, i.e. in the suffix phase.
InSuffix(k) == \E j \in 1..(k - 1) : calls[j].op = "Skip"

\* The NextSubtreeRoot calls that returned a root.
RootsReturned == {k \in 1..Len(calls) : calls[k].op = "NextSubtreeRoot" /\ calls[k].err = "nil"}

\* The latest call was a suffix-phase NextSubtreeRoot that returned io.EOF.
SuffixEOF ==
    /\ calls # <<>>
    /\ LastCall.op = "NextSubtreeRoot" /\ LastCall.err = "EOF" /\ InSuffix(Len(calls))

\* C16. Build error propagation: when a prefix-phase NextSubtreeRoot returns
\* an error (io.EOF included), or Skip does, or a suffix-phase NextSubtreeRoot
\* returns an error other than io.EOF, BuildRangeProof returns that error and
\* a nil proof and calls the cursor no more; a suffix-phase io.EOF ends the
\* build with the entries collected so far and a nil error.
ErrorPropagation ==
    /\ \A k \in 1..(Len(calls) - 1) : calls[k].err = "nil"
    /\ (calls # <<>> /\ LastCall.err \notin {"nil", "panic"}) =>
          IF SuffixEOF
          THEN pc = "built" /\ err = "nil" /\ Len(proof) = Cardinality(RootsReturned)
          ELSE pc = "failed" /\ err = LastCall.err /\ proof = nil
    /\ pc = "failed" => (calls # <<>> /\ LastCall.err \notin {"nil", "panic"})

\* A suffix-phase NextSubtreeRoot returned io.ErrUnexpectedEOF after a root
\* had been collected, and BuildRangeProof returned it with a nil proof.
SuffixErrorReturned ==
    /\ pc = "failed" /\ err = "ErrUnexpectedEOF" /\ proof = nil
    /\ LastCall.op = "NextSubtreeRoot" /\ InSuffix(Len(calls))
    /\ RootsReturned # {}

RECURSIVE expectedPrefix(_)
\* NextSubtreeRoot(2^i) for the set bits i of proofStart, from bit i down.
expectedPrefix(i) ==
    IF i < 0 THEN <<>>
    ELSE (IF BitOf(proofStart, i) = 1 THEN <<[op |-> "NextSubtreeRoot", n |-> 2 ^ i]>> ELSE <<>>)
         \o expectedPrefix(i - 1)

RECURSIVE expectedSuffix(_)
\* NextSubtreeRoot(2^i) for the clear bits i of proofEnd - 1, from bit i up.
expectedSuffix(i) ==
    IF i > Width THEN <<>>
    ELSE (IF BitOf(proofEnd - 1, i) = 0 THEN <<[op |-> "NextSubtreeRoot", n |-> 2 ^ i]>> ELSE <<>>)
         \o expectedSuffix(i + 1)

\* The calls of a run that no error or end of stream cuts short.
ExpectedCalls ==
    expectedPrefix(Width) \o <<[op |-> "Skip", n |-> proofEnd - proofStart]>> \o expectedSuffix(0)

RECURSIVE rootsOfCalls(_, _)
\* The roots that the successful NextSubtreeRoot calls from call k on have to
\* return, the cursor being at leaf pos before call k.
rootsOfCalls(k, pos) ==
    IF k > Len(calls) THEN <<>>
    ELSE (IF calls[k].op = "NextSubtreeRoot" /\ calls[k].err = "nil"
          THEN <<IF pos >= N THEN nil
                 ELSE MerkleRoot(SubSeq(leafHashesOf(leafData), pos + 1, Min(pos + calls[k].n, N)))>>
          ELSE <<>>)
         \o rootsOfCalls(k + 1, pos + calls[k].n)

\* C17. Phase ordering of the cursor calls: BuildRangeProof with a legal range
\* calls NextSubtreeRoot(2^i) for the set bits i of start, i descending, then
\* Skip(end - start) once, then NextSubtreeRoot(2^i) for the clear bits i of
\* end - 1, i ascending; it makes no call after one that returned io.EOF or an
\* error; each root returned is appended to the proof, in call order.
PhaseOrdering ==
    /\ \A k \in 1..(Len(calls) - 1) : calls[k].err = "nil"
    /\ Len(calls) <= Len(ExpectedCalls)
    /\ \A k \in 1..Len(calls) :
          calls[k].op = ExpectedCalls[k].op /\ calls[k].n = ExpectedCalls[k].n
    /\ pc = "skip" => Len(calls) = PopCount(proofStart)
    /\ pc = "suffix" => (Len(calls) = PopCount(proofStart) + 1 /\ LastCall.op = "Skip")
    /\ BuildReturned =>
          /\ calls # <<>> /\ LastCall.err # "nil"
          /\ BuildSucceeded => proof = rootsOfCalls(1, 0)
          /\ ~BuildSucceeded => proof = nil

\* A build made two prefix calls, the Skip and three suffix calls that
\* returned a root, and ended on io.EOF.
AllPhasesCalled ==
    /\ BuildSucceeded /\ SuffixEOF
    /\ PopCount(proofStart) = 2 /\ calls[1].n > calls[2].n
    /\ calls[3].op = "Skip"
    /\ Len(calls) >= 7 /\ calls[4].n < calls[5].n /\ calls[5].n < calls[6].n
    /\ Len(proof) = 5

\* ---- VerifyRangeProof's errors
\* C18. No error when the leaf count matches: for a legal range and any proof,
\* if the LeafHasher returns exactly end - start leaf hashes (and no error),
\* every PushSubTree of the suffix phase is legal, and VerifyRangeProof
\* returns a boolean and a nil error.
NoErrorOnMatchingCount ==
    (~IllegalRange(proofStart, proofEnd) /\ Len(yielded) = proofEnd - proofStart
        /\ pc \in {"vsuffix", "verified"}) =>
        /\ verr = "nil"
        /\ pc = "verified" => (ok \in BOOLEAN /\ vproof = <<>>)

\* VerifyRangeProof returned false and no error for the three leaves of
\* [0, 3) and a proof of two digests, both pushed in the suffix phase.
TwoSuffixPushesLegal ==
    /\ pc = "verified" /\ verr = "nil" /\ ok = FALSE
    /\ proofStart = 0 /\ proofEnd = 3 /\ Len(yielded) = 3
    /\ vproof = <<>> /\ Len(tree) = 1 /\ tree[1].height = 3

\* ---- the Tree
\* C19. Stack height invariant: after every Push and PushSubTree on a Tree
\* (those of VerifyRangeProof's three phases among them), the heights of the
\* pending subtrees strictly increase from the top of the stack (the latest)
\* to the bottom, so no two pending subtrees have the same height.
StackHeightInvariant ==
    \A k \in 1..(Len(tree) - 1) : tree[k].height < tree[k + 1].height

\* A PushSubTree has just been refused on a stack of two pending subtrees.
PushRefusedOnTwoSubtrees ==
    /\ pc = "tree" /\ verr = "HeightError"
    /\ Len(tree) = 2 /\ tree[1].height = 0 /\ tree[2].height = 1

\* ---- the precalcSubtreeHasher
\* The decorator as BuildRangeProof was given it.
FreshPrecalc ==
    newPrecalcSubtreeHasher(precalcRoots(leafData, sh.subtreeSize), sh.subtreeSize, FreshBase)

\* NextSubtreeRoot(n) on decorator h takes the path of the precalculated roots.
PrecalcPath(h, n) ==
    n % h.subtreeSize = 0 /\ Len(h.precalc) >= n \div h.subtreeSize

\* The roots of the blocks that cover leaves [p, p + n), when p and n are
\* multiples of the block size bs and the tree holds the blocks.
blockRoots(p, n, bs) == [j \in 1..(n \div bs) |-> subtreeRoot(p + (j - 1) * bs, p + j * bs)]

RECURSIVE SyncedFrom(_, _)
\* The calls from call k on, made on decorator h, keep the list of
\* precalculated roots and the base cursor in step.
SyncedFrom(k, h) ==
    IF k > Len(calls) THEN TRUE
    ELSE LET n == calls[k].n
             bs == h.subtreeSize
             pos == N - Len(remaining(h.sh))
         IN IF calls[k].op = "NextSubtreeRoot"
            THEN /\ PrecalcPath(h, n) =>
                       /\ pos % bs = 0
                       /\ pos + n <= N
                       /\ SubSeq(h.precalc, 1, n \div bs) = blockRoots(pos, n, bs)
                 /\ SyncedFrom(k + 1, NextSubtreeRoot(h, n).sh)
            ELSE LET res == Skip(h, n)
                 IN /\ res.err # "panic"
                    /\ Len(res.sh.precalc) = Len(h.precalc) - ((n + bs - 1) \div bs)
                    /\ remaining(res.sh.sh) = Drop(remaining(h.sh), n)
                    /\ SyncedFrom(k + 1, res.sh)

\* C20. Decorator synchronization: in a run of BuildRangeProof over the
\* precalcSubtreeHasher (block size a power of two dividing N, precalc the
\* roots of all blocks, range within the tree, here of full leaves), each
\* NextSubtreeRoot(n) that takes the precalculated path finds the base cursor
\* at a block boundary p and consumes the roots of the blocks covering
\* [p, p + n); Skip(n) removes ceil(n / blockSize) roots and skips n leaves of
\* the base cursor.
DecoratorSynchronized ==
    (InRange /\ FullLeaves) => SyncedFrom(1, FreshPrecalc)

\* The decorator stays in step on the ranges that start and end at block
\* boundaries.
DecoratorSynchronizedAligned ==
    (proofStart % sh.subtreeSize = 0 /\ proofEnd % sh.subtreeSize = 0) => DecoratorSynchronized

\* ---- the pass over the leaves
\* The SubtreeHasher as BuildRangeProof was given it.
FreshCursor ==
    IF sh.kind = "reader" THEN NewReaderSubtreeHasher(leafData)
    ELSE NewCachedSubtreeHasher(leafHashesOf(leafData))

\* hs is what is left of the leaf hashes of the tree after some of them.
IsRestOfLeaves(hs) ==
    Len(hs) <= N /\ hs = Drop(leafHashesOf(leafData), N - Len(hs))

RECURSIVE ForwardFrom(_, _)
\* The calls from call k on, made on cursor h, each move the cursor forward
\* over the leaves not yet passed, a call that succeeds over the next
\* min(n, leaves left) of them, and end at the cursor of the state.
ForwardFrom(k, h) ==
    IF k > Len(calls) THEN h = sh
    ELSE LET left == remaining(h)
             res == IF calls[k].op = "Skip" THEN Skip(h, calls[k].n)
                    ELSE NextSubtreeRoot(h, calls[k].n)
             passed == Len(left) - Len(remaining(res.sh))
         IN /\ res.err = calls[k].err
            /\ passed >= 0
            /\ remaining(res.sh) = Drop(left, passed)
            /\ res.err = "nil" => passed = Min(calls[k].n, Len(left))
            /\ ForwardFrom(k + 1, res.sh)

\* C21. Single forward pass: during BuildRangeProof the cursor never moves
\* back and passes each leaf at most once; when BuildRangeProof returns a
\* proof for a range within the N leaves, the cursor has passed all N leaves,
\* each once (hashed into a proof entry or skipped), and a further
\* NextSubtreeRoot returns io.EOF.
SingleForwardPass ==
    /\ IsRestOfLeaves(remaining(sh))
    /\ ForwardFrom(1, FreshCursor)
    /\ (InRange /\ BuildSucceeded) =>
          /\ remaining(sh) = <<>>
          /\ NextSubtreeRoot(sh, 1).err = "EOF"
          /\ Len(proof) + 2 = Len(calls)

\* The build for a range inside the worked example's tree has passed all its
\* leaves: some hashed for the prefix, some skipped, some hashed for the suffix.
CursorExhausted ==
    /\ N = ExampleLeaves /\ proofStart = 5 /\ proofEnd = 7
    /\ BuildSucceeded /\ SuffixEOF
    /\ remaining(sh) = <<>> /\ Len(proof) = 4 /\ Len(calls) = 6

\* ---- the longest proof
\* midl, midr := numLeaves/2-1, numLeaves/2+1
midl == N \div 2 - 1
midr == N \div 2 + 1

\* C22. Largest proof at the midpoint: in a tree of N = 2^k leaves, k >= 2,
\* no range within the tree has a longer proof than [N/2 - 1, N/2 + 1), whose
\* proof has 2(k - 1) entries, the first k - 1 from the prefix phase and the
\* other k - 1 from the suffix phase.
LargestProofAtMidpoint ==
    (N = 2 ^ CeilLog2(N) /\ CeilLog2(N) >= 2 /\ InRange /\ BuildReturned) =>
        /\ BuildSucceeded =>
              /\ Len(proof) <= 2 * (CeilLog2(N) - 1)
              /\ Len(proof) <= Len(BuildRangeProof(midl, midr, FreshCursor).proof)
        /\ (proofStart = midl /\ proofEnd = midr) =>
              /\ BuildSucceeded
              /\ Len(proof) = 2 * (CeilLog2(N) - 1)
              /\ SubSeq(proof, 1, CeilLog2(N) - 1) = prefixSegments(Width, midl, 0)
              /\ SubSeq(proof, CeilLog2(N), Len(proof)) = suffixSegments(0, midr - 1, midr, N)
              /\ calls[CeilLog2(N)].op = "Skip"

\* The proof of the two middle leaves of eight was built: four entries.
MidpointProofBuilt ==
    /\ N = 8 /\ proofStart = midl /\ proofEnd = midr
    /\ pc = "built" /\ Len(proof) = 4
    /\ calls[3] = Call("Skip", 2, "nil")

====
